---------------------------- MODULE Spec2Model ----------------------------
(***************************************************************************)
(* A model of the documentation Q&A scripts of the repository:             *)
(*   - the global ask pipeline of src/js/global-ask.js (lines 1-404):      *)
(*     loadCorpus, tokeniseClean, dice, headingScore, bestSentenceScore,   *)
(*     searchCorpus, selectSources, composeAnswer, renderAnswerOrFallback  *)
(*     and the event handlers wired by initGlobalAsk;                      *)
(*   - the page-scoped ask of the same file (lines 405-731): initAsk with  *)
(*     loadData and handleQuery.                                           *)
(*                                                                         *)
(* JavaScript strings are tuples of one-character strings, so that         *)
(* lower-casing, the regular expressions and split() are modelled by what  *)
(* they do to the characters.  JavaScript numbers (scores) are exact       *)
(* rationals <<n, d>> in lowest terms; no text of the model makes a score  *)
(* meet a threshold where double rounding could decide a comparison.       *)
(***************************************************************************)
EXTENDS Integers, Sequences, FiniteSets, TLC

(***************************************************************************)
(* Rational arithmetic for the scores.                                     *)
(***************************************************************************)
RECURSIVE GCD(_, _)
GCD(a, b) ==
    IF b = 0 THEN a ELSE GCD(b, a % b)

Rat(n, d) ==
    IF n = 0 THEN <<0, 1>> ELSE <<n \div GCD(n, d), d \div GCD(n, d)>>

RAdd(x, y) ==
    Rat(x[1] * y[2] + y[1] * x[2], x[2] * y[2])

RGeq(x, y) ==
    x[1] * y[2] >= y[1] * x[2]

RGt(x, y) ==
    x[1] * y[2] > y[1] * x[2]

RMax(x, y) ==
    IF RGeq(x, y) THEN x ELSE y

Zero ==
    Rat(0, 1)

(***************************************************************************)
(* The constants of global-ask.js, lines 7-11.                             *)
(***************************************************************************)
CANDIDATE_FLOOR ==
    Rat(5, 100)

STRONG_MATCH ==
    Rat(20, 100)

BOOST_DOC ==
    Rat(5, 100)

BOOST_H2 ==
    Rat(8, 100)

BOOST_FAQ ==
    Rat(6, 100)

\* headingScore: the fixed score of a heading holding every query token
EXACTISH ==
    Rat(95, 100)

\* headingScore: the bias added to the Dice score of a heading
HEADING_BIAS ==
    Rat(15, 100)

\* searchCorpus: the least headingScore that makes a title a candidate
DOC_TITLE_MIN ==
    Rat(30, 100)

\* bestSentenceScore: slice(0, 12)
MaxSentences ==
    12

\* selectSources: picked.length >= 3 ends the walk
MaxPicked ==
    3

\* selectSources: seenDocs.size === 2 closes the set of documents
MaxDocsSeen ==
    2

\* composeAnswer: slice(0, 2) of the first sentences
MaxLead ==
    2

(***************************************************************************)
(* Characters.                                                             *)
(***************************************************************************)
UpperCase ==
    <<"A", "B", "C", "D", "E", "F", "G", "H", "I", "J", "K", "L", "M",
      "N", "O", "P", "Q", "R", "S", "T", "U", "V", "W", "X", "Y", "Z">>

LowerCase ==
    <<"a", "b", "c", "d", "e", "f", "g", "h", "i", "j", "k", "l", "m",
      "n", "o", "p", "q", "r", "s", "t", "u", "v", "w", "x", "y", "z">>

\* the characters the class \s of a regular expression matches, as far as
\* they occur in the texts
WhiteSpace ==
    {" ", "\t", "\n", "\r"}

SentenceEnd ==
    {".", "!", "?"}

UpperSet ==
    {UpperCase[i] : i \in 1..Len(UpperCase)}

LowerOf ==
    [c \in UpperSet |-> LowerCase[CHOOSE i \in 1..Len(UpperCase) : UpperCase[i] = c]]

\* String.prototype.toLowerCase, one character
toLowerCase(c) ==
    IF c \in UpperSet THEN LowerOf[c] ELSE c

\* the class [a-z0-9 ] of tokeniseClean's replace()
Kept ==
    {LowerCase[i] : i \in 1..Len(LowerCase)} \cup {"0", "1", "2", "3", "4", "5", "6", "7", "8", "9"} \cup {" "}

\* s.toLowerCase().replace(/[^a-z0-9 ]/g, ' ')
Normalise(s) ==
    [i \in 1..Len(s) |->
        LET c == toLowerCase(s[i]) IN IF c \in Kept THEN c ELSE " "]

\* the pieces of s around its separators, the empty pieces kept: separator
\* k covers s[from[k]..to[k]]
Pieces(s, from, to) ==
    [k \in 1..(Len(from) + 1) |->
        SubSeq(s, IF k = 1 THEN 1 ELSE to[k - 1] + 1,
                  IF k = Len(from) + 1 THEN Len(s) ELSE from[k] - 1)]

\* String.prototype.split(' '): every single space separates
SplitSpace(s) ==
    LET spaces == SelectSeq([i \in 1..Len(s) |-> i], LAMBDA i : s[i] = " ")
    IN  Pieces(s, spaces, spaces)

(***************************************************************************)
(* Token utilities, global-ask.js lines 44-75.                             *)
(***************************************************************************)
STOP ==
    { <<"t", "h", "e">>,
      <<"a">>,
      <<"a", "n">>,
      <<"a", "n", "d">>,
      <<"o", "r">>,
      <<"t", "o">>,
      <<"o", "f">>,
      <<"f", "o", "r">>,
      <<"i", "n">>,
      <<"o", "n">>,
      <<"w", "i", "t", "h">>,
      <<"i", "s">>,
      <<"a", "r", "e">>,
      <<"b", "e">>,
      <<"c", "a", "n">>,
      <<"h", "o", "w">>,
      <<"w", "h", "a", "t">>,
      <<"d", "o">>,
      <<"d", "o", "e", "s">>,
      <<"d", "i", "d">>,
      <<"i">>,
      <<"w", "e">>,
      <<"y", "o", "u">> }

tokeniseClean(s) ==
    SelectSeq(SplitSpace(Normalise(s)), LAMBDA t : t # <<>> /\ t \notin STOP)

\* new Set(A)
SetOf(A) ==
    {A[i] : i \in 1..Len(A)}

dice(A, B) ==
    IF Len(A) = 0 \/ Len(B) = 0 THEN Zero
    ELSE LET SA == SetOf(A)
             SB == SetOf(B)
         IN  Rat(2 * Cardinality(SA \cap SB), Cardinality(SA) + Cardinality(SB))

headingScore(query, heading) ==
    LET q == tokeniseClean(query)
        h == tokeniseClean(heading)
        H == SetOf(h)
    IN  IF Len(q) = 0 \/ Len(h) = 0 THEN Zero
        ELSE IF \A i \in 1..Len(q) : q[i] \in H THEN EXACTISH
        ELSE RAdd(dice(q, h), HEADING_BIAS)

\* the last position of the run of white space that starts at s[i]
RunEnd(s, i) ==
    CHOOSE j \in i..Len(s) :
        /\ \A k \in i..j : s[k] \in WhiteSpace
        /\ j = Len(s) \/ s[j + 1] \notin WhiteSpace

\* body.split(/(?<=[.!?])\s+/): a run of white space that follows a sentence
\* end separates two pieces
SplitSentences(s) ==
    LET breaks == SelectSeq([i \in 1..Len(s) |-> i], LAMBDA i :
                      i > 1 /\ s[i] \in WhiteSpace /\ s[i - 1] \in SentenceEnd)
    IN  Pieces(s, breaks, [k \in 1..Len(breaks) |-> RunEnd(s, breaks[k])])

\* Array.prototype.slice(0, n)
Slice0(xs, n) ==
    SubSeq(xs, 1, IF Len(xs) < n THEN Len(xs) ELSE n)

\* the loop of bestSentenceScore over sentences[i..]: a sentence replaces the
\* best one only with a strictly greater score
RECURSIVE BestFrom(_, _, _, _)
BestFrom(q, sentences, i, best) ==
    IF i > Len(sentences) THEN best
    ELSE LET sc == dice(q, tokeniseClean(sentences[i]))
         IN  BestFrom(q, sentences, i + 1,
                 IF RGt(sc, best.score)
                 THEN [score |-> sc, sentence |-> sentences[i]]
                 ELSE best)

bestSentenceScore(query, body) ==
    BestFrom(tokeniseClean(query),
             Slice0(SplitSentences(body), MaxSentences), 1,
             [score |-> Zero, sentence |-> <<>>])

\* String.prototype.trim
trim(s) ==
    IF \A i \in 1..Len(s) : s[i] \in WhiteSpace THEN <<>>
    ELSE SubSeq(s, CHOOSE i \in 1..Len(s) :
                       s[i] \notin WhiteSpace /\ \A k \in 1..(i - 1) : s[k] \in WhiteSpace,
                   CHOOSE j \in 1..Len(s) :
                       s[j] \notin WhiteSpace /\ \A k \in (j + 1)..Len(s) : s[k] \in WhiteSpace)

\* Array.prototype.join(' ')
RECURSIVE join(_)
join(parts) ==
    IF Len(parts) = 0 THEN <<>>
    ELSE IF Len(parts) = 1 THEN parts[1]
    ELSE parts[1] \o <<" ">> \o join(Tail(parts))

(***************************************************************************)
(* JavaScript values.  undefined, null and '' are all the empty tuple: the *)
(* code reads the optional fields only through || and truthiness tests.    *)
(* A missing field of an object is a missing field of the record.          *)
(***************************************************************************)
Null ==
    <<>>

\* r.f || dflt
Or(r, f, dflt) ==
    IF f \in DOMAIN r /\ r[f] # Null THEN r[f] ELSE dflt

\* document.querySelector('#doc') finds no element
NoDoc ==
    [type |-> "null"]

\* the value null of the variable corpus and of a JSON payload
JsNull ==
    [type |-> "null"]

\* a JSON array, tagged so that Array.isArray can tell it from other values
JsArray(items) ==
    [type |-> "array", items |-> items]

isArray(v) ==
    v.type = "array"

\* !corpus || !Array.isArray(corpus.docs) is false
HasDocsArray(c) ==
    c # JsNull /\ "docs" \in DOMAIN c /\ isArray(c.docs)

(***************************************************************************)
(* The texts of the documents, queries and hints.                          *)
(***************************************************************************)
SAMPLE_1 ==
    <<"M", "a", "k", "e", " ", "a", " ", "p", "a", "y", "m", "e", "n", "t", " ", "l", "i", "n", "k", " ", "s", "i", "n", "g", "l", "e", "-", "u", "s", "e", " ", "a", "n", "d", " ", "w", "h", "a", "t", " ", "w", "i", "l", "l", " ", "c", "u", "s", "t", "o", "m", "e", "r", "s", " ", "s", "e", "e", " ", "a", "f", "t", "e", "r", "?">>

SAMPLE_2 ==
    <<"C", "o", "l", "l", "e", "c", "t", " ", "b", "i", "l", "l", "i", "n", "g", " ", "a", "n", "d", " ", "s", "h", "i", "p", "p", "i", "n", "g", " ", "a", "d", "d", "r", "e", "s", "s", "e", "s", " ", "a", "n", "d", " ", "p", "h", "o", "n", "e", " ", "n", "u", "m", "b", "e", "r">>

SAMPLE_3 ==
    <<"W", "h", "a", "t", " ", "s", "e", "c", "u", "r", "i", "t", "y", " ", "f", "e", "a", "t", "u", "r", "e", "s", " ", "a", "r", "e", " ", "a", "v", "a", "i", "l", "a", "b", "l", "e", "?">>

Q_SingleUse ==
    <<"m", "a", "k", "e", " ", "a", " ", "p", "a", "y", "m", "e", "n", "t", " ", "l", "i", "n", "k", " ", "s", "i", "n", "g", "l", "e", " ", "u", "s", "e">>

Q_Digits ==
    <<"1", "2", "3", "4", "5">>

Q_StopOnly ==
    <<"h", "o", "w">>

Q_Blank ==
    <<" ", " ">>

Id_PaymentLinks ==
    <<"p", "a", "y", "m", "e", "n", "t", "-", "l", "i", "n", "k", "s">>

Id_Checkout ==
    <<"c", "h", "e", "c", "k", "o", "u", "t">>

Id_Security ==
    <<"s", "e", "c", "u", "r", "i", "t", "y">>

Id_LimitPayments ==
    <<"l", "i", "m", "i", "t", "-", "p", "a", "y", "m", "e", "n", "t", "s">>

Id_Phone ==
    <<"p", "h", "o", "n", "e">>

Id_Intro ==
    <<"i", "n", "t", "r", "o">>

H_LimitPayments ==
    <<"L", "i", "m", "i", "t", " ", "t", "h", "e", " ", "n", "u", "m", "b", "e", "r", " ", "o", "f", " ", "t", "i", "m", "e", "s", " ", "a", " ", "p", "a", "y", "m", "e", "n", "t", " ", "l", "i", "n", "k", " ", "c", "a", "n", " ", "b", "e", " ", "p", "a", "i", "d">>

B_LimitPayments ==
    <<"E", "n", "a", "b", "l", "e", " ", "L", "i", "m", "i", "t", " ", "t", "h", "e", " ", "n", "u", "m", "b", "e", "r", " ", "o", "f", " ", "p", "a", "y", "m", "e", "n", "t", "s", " ", "i", "n", " ", "t", "h", "e", " ", "d", "a", "s", "h", "b", "o", "a", "r", "d", " ", "a", "n", "d", " ", "s", "e", "t", " ", "i", "t", " ", "t", "o", " ", "1", ".", " ", "T", "h", "i", "s", " ", "r", "e", "s", "t", "r", "i", "c", "t", "s", " ", "t", "h", "e", " ", "l", "i", "n", "k", " ", "t", "o", " ", "o", "n", "e", " ", "c", "o", "m", "p", "l", "e", "t", "e", "d", " ", "s", "e", "s", "s", "i", "o", "n", ".">>

\* SAMPLE_QUERIES, global-ask.js lines 18-22
SAMPLE_QUERIES ==
    <<SAMPLE_1, SAMPLE_2, SAMPLE_3>>

\* the queries a user types: the scenario query, digits found nowhere, a
\* query of stop words only, white space only
TypedQueries ==
    {Q_SingleUse, Q_Digits, Q_StopOnly, Q_Blank}

S_LimitPayments ==
    [id |-> Id_LimitPayments, heading |-> H_LimitPayments, body |-> B_LimitPayments]

\* "Collect a phone number"
\* "Ask for a phone number. It is optional."
S_Phone ==
    [id |-> Id_Phone, heading |-> <<"C", "o", "l", "l", "e", "c", "t", " ", "a", " ", "p", "h", "o", "n", "e", " ", "n", "u", "m", "b", "e", "r">>, body |-> <<"A", "s", "k", " ", "f", "o", "r", " ", "a", " ", "p", "h", "o", "n", "e", " ", "n", "u", "m", "b", "e", "r", ".", " ", "I", "t", " ", "i", "s", " ", "o", "p", "t", "i", "o", "n", "a", "l", ".">>]

\* "Security features"
\* "Links use HTTPS."
S_Intro ==
    [id |-> Id_Intro, heading |-> <<"S", "e", "c", "u", "r", "i", "t", "y", " ", "f", "e", "a", "t", "u", "r", "e", "s">>, body |-> <<"L", "i", "n", "k", "s", " ", "u", "s", "e", " ", "H", "T", "T", "P", "S", ".">>]

\* the document of the scenario: one section, no FAQs
\* "Payment Links"
D_PaymentLinks ==
    [id |-> Id_PaymentLinks, title |-> <<"P", "a", "y", "m", "e", "n", "t", " ", "L", "i", "n", "k", "s">>,
     sections |-> <<S_LimitPayments>>]

\* a document with a FAQ citing its section and a FAQ with neither a
\* question nor a section
\* "Checkout"
\* "How do I limit a link?"
\* "Set a payment limit! See the dashboard."
\* "Fees apply."
D_Checkout ==
    [id |-> Id_Checkout, title |-> <<"C", "h", "e", "c", "k", "o", "u", "t">>,
     sections |-> <<S_Phone>>,
     faqs |-> <<[q |-> <<"H", "o", "w", " ", "d", "o", " ", "I", " ", "l", "i", "m", "i", "t", " ", "a", " ", "l", "i", "n", "k", "?">>, a |-> <<"S", "e", "t", " ", "a", " ", "p", "a", "y", "m", "e", "n", "t", " ", "l", "i", "m", "i", "t", "!", " ", "S", "e", "e", " ", "t", "h", "e", " ", "d", "a", "s", "h", "b", "o", "a", "r", "d", ".">>, section_id |-> Id_Phone],
                [a |-> <<"F", "e", "e", "s", " ", "a", "p", "p", "l", "y", ".">>]>>]

\* "Security"
D_Security ==
    [id |-> Id_Security, title |-> <<"S", "e", "c", "u", "r", "i", "t", "y">>,
     sections |-> <<S_Intro>>]

DocPool ==
    {D_PaymentLinks, D_Checkout, D_Security}

\* the most documents of a corpus payload
MaxDocs ==
    2

\* the lists of at most MaxDocs documents with unique ids
DocLists ==
    UNION {{ds \in [1..n -> DocPool] :
                \A i, j \in 1..n : i # j => ds[i].id # ds[j].id} : n \in 0..MaxDocs}

\* the payloads response.json() resolves to: null, an object without docs,
\* an object whose docs is no array, and the well-formed corpora
Payloads ==
    {JsNull, [type |-> "object"], [type |-> "object", docs |-> [type |-> "number"]]}
        \cup {[type |-> "object", docs |-> JsArray(ds)] : ds \in DocLists}

(***************************************************************************)
(* searchCorpus, global-ask.js lines 78-119.                               *)
(***************************************************************************)
\* the candidate of a document title, if its score reaches 0.30
DocCandidates(q, d) ==
    LET docS == headingScore(q, d.title)
    IN  IF RGeq(docS, DOC_TITLE_MIN)
        THEN <<[type |-> "doc", score |-> RAdd(docS, BOOST_DOC),
                doc |-> d, snippet |-> d.title]>>
        ELSE <<>>

SectionCandidate(q, d, s) ==
    LET h == headingScore(q, s.heading)
        best == bestSentenceScore(q, Or(s, "body", <<>>))
        score == IF RGt(h, Zero) THEN RAdd(RMax(h, best.score), BOOST_H2)
                 ELSE RMax(h, best.score)
    IN  IF RGeq(score, CANDIDATE_FLOOR)
        THEN <<[type |-> "section", score |-> score, doc |-> d, section |-> s,
                snippet |-> IF RGeq(h, best.score) THEN s.heading ELSE best.sentence]>>
        ELSE <<>>

FaqCandidate(q, d, f) ==
    LET h == headingScore(q, Or(f, "q", <<>>))
        best == bestSentenceScore(q, Or(f, "a", <<>>))
        score == RAdd(RMax(h, best.score), BOOST_FAQ)
    IN  IF RGeq(score, CANDIDATE_FLOOR)
        THEN <<[type |-> "faq", score |-> score, doc |-> d,
                sectionId |-> Or(f, "section_id", Null),
                snippet |-> IF best.sentence # <<>> THEN best.sentence
                            ELSE Or(f, "q", Null)]>>
        ELSE <<>>

\* the loop over d.sections || [], from item i on
RECURSIVE SectionCandidates(_, _, _, _)
SectionCandidates(q, d, xs, i) ==
    IF i > Len(xs) THEN <<>>
    ELSE SectionCandidate(q, d, xs[i]) \o SectionCandidates(q, d, xs, i + 1)

\* the loop over d.faqs || [], from item i on
RECURSIVE FaqCandidates(_, _, _, _)
FaqCandidates(q, d, xs, i) ==
    IF i > Len(xs) THEN <<>>
    ELSE FaqCandidate(q, d, xs[i]) \o FaqCandidates(q, d, xs, i + 1)

\* the body of the loop over corpus.docs, for one document
DocResults(q, d) ==
    DocCandidates(q, d)
        \o SectionCandidates(q, d, Or(d, "sections", <<>>), 1)
        \o FaqCandidates(q, d, Or(d, "faqs", <<>>), 1)

RECURSIVE CorpusResults(_, _, _)
CorpusResults(q, docs, i) ==
    IF i > Len(docs) THEN <<>>
    ELSE DocResults(q, docs[i]) \o CorpusResults(q, docs, i + 1)

\* x placed before the items of equal score: what a sort that is not stable
\* may do
RECURSIVE InsertBeforeEqual(_, _)
InsertBeforeEqual(xs, x) ==
    IF Len(xs) = 0 THEN <<x>>
    ELSE IF RGt(xs[1].score, x.score) THEN <<xs[1]>> \o InsertBeforeEqual(Tail(xs), x)
    ELSE <<x>> \o xs

\* the place of x in the sorted list xs: after every item whose score is not
\* smaller, so that items of equal score keep their order
RECURSIVE InsertByScore(_, _)
InsertByScore(xs, x) ==
    IF Len(xs) = 0 THEN <<x>>
    ELSE IF RGeq(xs[1].score, x.score) THEN <<xs[1]>> \o InsertByScore(Tail(xs), x)
    ELSE <<x>> \o xs

\* results.sort((a, b) => b.score - a.score): a stable sort, descending
RECURSIVE SortByScore(_, _, _)
SortByScore(xs, i, acc) ==
    IF i > Len(xs) THEN acc
    ELSE SortByScore(xs, i + 1, InsertByScore(acc, xs[i]))

\* searchCorpus(query) on the corpus c
searchCorpusOn(c, query) ==
    LET q == trim(query)
    IN  IF q = <<>> THEN <<>>
        ELSE SortByScore(CorpusResults(q, c.docs.items, 1), 1, <<>>)

(***************************************************************************)
(* selectSources, global-ask.js lines 121-137.                             *)
(***************************************************************************)
secIdOf(c) ==
    IF c.type = "section" THEN c.section.id ELSE Or(c, "sectionId", Null)

\* the first continue statement of the loop alone
SkipsNoDocCap(c, seenSections, seenDocs) ==
    secIdOf(c) # Null /\ secIdOf(c) \in seenSections

\* the two continue statements of the loop
Skips(c, seenSections, seenDocs) ==
    \/ secIdOf(c) # Null /\ secIdOf(c) \in seenSections
    \/ Cardinality(seenDocs) = MaxDocsSeen /\ c.doc.id \notin seenDocs

\* the loop from cands[i] on; st.ix lists the places in cands of the picked
\* candidates
RECURSIVE SelectWalk(_, _, _)
SelectWalk(cands, i, st) ==
    IF i > Len(cands) \/ Len(st.picked) >= MaxPicked THEN st
    ELSE IF Skips(cands[i], st.seenSections, st.seenDocs)
    THEN SelectWalk(cands, i + 1, st)
    ELSE SelectWalk(cands, i + 1,
            [picked |-> Append(st.picked, cands[i]),
             ix |-> Append(st.ix, i),
             seenSections |-> IF secIdOf(cands[i]) # Null
                              THEN st.seenSections \cup {secIdOf(cands[i])}
                              ELSE st.seenSections,
             seenDocs |-> st.seenDocs \cup {cands[i].doc.id}])

SelectRun(cands) ==
    SelectWalk(cands, 1,
        [picked |-> <<>>, ix |-> <<>>, seenSections |-> {}, seenDocs |-> {}])

selectSources(cands) ==
    SelectRun(cands).picked

(***************************************************************************)
(* composeAnswer, global-ask.js lines 139-177.                             *)
(***************************************************************************)
\* sentence ? [sentence] : [src.snippet], its first item
SentenceOr(best, snippet) ==
    IF best.sentence # <<>> THEN best.sentence ELSE snippet

\* sentences[0] of the block of one source
FirstSentence(query, src) ==
    IF src.type = "section"
    THEN SentenceOr(bestSentenceScore(query, Or(src.section, "body", <<>>)), src.snippet)
    ELSE IF src.type = "faq"
    THEN SentenceOr(bestSentenceScore(query, src.snippet), src.snippet)
    ELSE src.snippet

\* blocks.map(b => b.sentences[0]).filter(Boolean).slice(0, 2)
LeadParts(query, sources) ==
    Slice0(SelectSeq([i \in 1..Len(sources) |-> FirstSentence(query, sources[i])],
                     LAMBDA s : s # <<>>), MaxLead)

\* one source chip: its label, the open-doc button and, with a section id,
\* the jump-sec button
SourceChip(src) ==
    [docTitle |-> src.doc.title,
     secTitle |-> IF src.type = "section" THEN src.section.heading
                  ELSE IF src.type = "faq" THEN Or(src, "sectionId", <<"F", "A", "Q">>)
                  ELSE <<"D", "o", "c", "u", "m", "e", "n", "t">>,
     docId |-> src.doc.id,
     secId |-> secIdOf(src)]

composeAnswer(query, sources) ==
    [kind |-> "answer",
     lead |-> join(LeadParts(query, sources)),
     chips |-> [i \in 1..Len(sources) |-> SourceChip(sources[i])]]

(***************************************************************************)
(* renderAnswerOrFallback, global-ask.js lines 180-201.                    *)
(***************************************************************************)
\* cands.filter(c => c.score >= STRONG_MATCH)
Strong(cands) ==
    SelectSeq(cands, LAMBDA c : RGeq(c.score, STRONG_MATCH))

PoolStrongOnly(cands) ==
    Strong(cands)

Pool(cands) ==
    LET strong == Strong(cands)
    IN  IF Len(strong) > 0 THEN strong ELSE cands

\* the card of the no-match branch
NoResults ==
    [kind |-> "noresults"]

\* panel.innerHTML = ''
EmptyPanel ==
    [kind |-> "empty"]

\* what renderAnswerOrFallback leaves in the answer panel
renderAnswerOrFallback(query, cands) ==
    LET pool == Pool(cands)
    IN  IF Len(pool) = 0 THEN NoResults
        ELSE composeAnswer(query, selectSources(pool))

(***************************************************************************)
(* The state of the global ask page.                                       *)
(***************************************************************************)
VARIABLES
    corpus,        \* let corpus (line 14)
    corpusReady,   \* let corpusReady (line 15)
    askDisabled,   \* #ask-button .disabled
    loadState,     \* #load-state .textContent
    loadPc,        \* where loadCorpus stands: "fetch", "json" or "done"
    sidebar,       \* #doc-list: the ids of the documents renderSidebar listed
    inputValue,    \* #global-ask .value
    panel,         \* #answer-panel .innerHTML
    hintsDisplay,  \* #ask-hints .style.display
    run            \* the last call of searchCorpus and what was made of it

globalVars ==
    <<corpus, corpusReady, askDisabled, loadState, loadPc, sidebar, inputValue,
      panel, hintsDisplay, run>>

(***************************************************************************)
(* selectSources on its own: the candidate list it is given and its result.*)
(***************************************************************************)
VARIABLES
    selCands,      \* the argument cands
    selRun         \* the result of the walk, once selectSources returned

selectVars ==
    <<selCands, selRun>>

(***************************************************************************)
(* The state of one initAsk (the page-scoped ask, lines 555-731).          *)
(***************************************************************************)
VARIABLES
    page,          \* the children of the element #doc, or no such element
    faqData,       \* let faqData (line 561)
    sections,      \* let sections (line 562)
    isLoading,     \* let isLoading (line 563)
    loads,         \* the calls of loadData that wait for fetch() or json()
    askInput,      \* inputEl.value
    askPanel,      \* panelEl.innerHTML
    asked,         \* how many times handleQuery went past its first return
    lastEval       \* the last call of composeAnswer by handleQuery

scopedVars ==
    <<page, faqData, sections, isLoading, loads, askInput, askPanel, asked, lastEval>>

(***************************************************************************)
(* headingScore applied to a query and two headings (lines 58-64).         *)
(***************************************************************************)
VARIABLES
    hQuery,        \* the argument query
    hFull,         \* a first heading
    hPartial,      \* a second heading
    hRun           \* the two scores, once headingScore has run

headingVars ==
    <<hQuery, hFull, hPartial, hRun>>

(***************************************************************************)
(* The state of one initNavHighlight (nav.js).                             *)
(***************************************************************************)
VARIABLES
    ticking,       \* let ticking (nav.js line 13)
    rafQueue,      \* the callbacks requestAnimationFrame holds for the next frame
    scrollTop,     \* window.pageYOffset
    layout,        \* the layout of the page, which a resize changes
    events,        \* the scroll and resize events not yet dispatched
    activeId,      \* activeId of the last updateActiveLink
    linkActive,    \* the links whose class list holds 'active'
    stale          \* the runs of handleScroll since the last updateActiveLink

navVars ==
    <<ticking, rafQueue, scrollTop, layout, events, activeId, linkActive, stale>>

vars ==
    <<globalVars, selectVars, scopedVars, headingVars, navVars>>

\* what the handlers of the global ask page leave alone
notGlobal ==
    <<selectVars, scopedVars, headingVars, navVars>>

\* what the walk of selectSources leaves alone
notSelect ==
    <<globalVars, scopedVars, headingVars, navVars>>

\* what the handlers of initAsk leave alone
notScoped ==
    <<globalVars, selectVars, headingVars, navVars>>

\* headingScore not called
IdleHeading ==
    /\ hQuery = <<>>
    /\ hFull = <<>>
    /\ hPartial = <<>>
    /\ hRun = [done |-> FALSE]

\* no initNavHighlight on the page
IdleNav ==
    /\ ticking = FALSE
    /\ rafQueue = <<>>
    /\ scrollTop = 0
    /\ layout = "wide"
    /\ events = {}
    /\ activeId = <<>>
    /\ linkActive = {}
    /\ stale = 0

\* the markup of the page is not part of src/: the ask button starts
\* disabled, the engine being not ready before a corpus is loaded
AskButtonInitiallyDisabled ==
    TRUE

NoRun ==
    [kind |-> "none"]

\* the state after DOMContentLoaded ran initGlobalAsk: the listeners are
\* wired and loadCorpus waits for fetch()
InitGlobalAsk ==
    /\ corpus = JsNull
    /\ corpusReady = FALSE
    /\ askDisabled = AskButtonInitiallyDisabled
    /\ loadState = "Loading documentation..."
    /\ loadPc = "fetch"
    /\ sidebar = <<>>
    /\ inputValue = <<>>
    /\ panel = EmptyPanel
    /\ hintsDisplay = ""
    /\ run = NoRun

\* the catch block of loadCorpus
LoadFailed ==
    /\ corpusReady' = FALSE
    /\ askDisabled' = TRUE
    /\ loadState' = "Docs failed to load. Please refresh."
    /\ loadPc' = "done"

\* fetch() rejects, or resolves with a response that is not ok
FetchFails ==
    /\ loadPc = "fetch"
    /\ LoadFailed
    /\ UNCHANGED <<corpus, sidebar, inputValue, panel, hintsDisplay, run>>
    /\ UNCHANGED notGlobal

\* fetch() resolves with an ok response: loadCorpus waits for r.json()
FetchResolves ==
    /\ loadPc = "fetch"
    /\ loadPc' = "json"
    /\ UNCHANGED <<corpus, corpusReady, askDisabled, loadState, sidebar,
                   inputValue, panel, hintsDisplay, run>>
    /\ UNCHANGED notGlobal

\* r.json() rejects: the body is no JSON
JsonRejects ==
    /\ loadPc = "json"
    /\ LoadFailed
    /\ UNCHANGED <<corpus, sidebar, inputValue, panel, hintsDisplay, run>>
    /\ UNCHANGED notGlobal

\* r.json() resolves: the payload is assigned, then validated
JsonResolves(payload) ==
    /\ loadPc = "json"
    /\ corpus' = payload
    /\ IF HasDocsArray(corpus')
       THEN /\ corpusReady' = TRUE
            /\ askDisabled' = FALSE
            /\ loadState' = ""
            /\ sidebar' = [i \in 1..Len(corpus'.docs.items) |-> corpus'.docs.items[i].id]
            /\ loadPc' = "done"
       ELSE /\ LoadFailed
            /\ UNCHANGED sidebar
    /\ UNCHANGED <<inputValue, panel, hintsDisplay, run>>
    /\ UNCHANGED notGlobal

\* the user edits the ask box
TypeQuery(q) ==
    /\ inputValue' = q
    /\ UNCHANGED <<corpus, corpusReady, askDisabled, loadState, loadPc, sidebar,
                   panel, hintsDisplay, run>>
    /\ UNCHANGED notGlobal

\* searchCorpus reads the global corpus
searchCorpus(query) ==
    searchCorpusOn(corpus, query)

\* what one call of renderAnswerOrFallback(q, cands) worked with and left in
\* the answer panel
RunOf(q, cands) ==
    [kind |-> "searched", query |-> q, ready |-> corpusReady,
     cands |-> cands, pool |-> Pool(cands),
     sources |-> IF Len(Pool(cands)) = 0 THEN <<>> ELSE selectSources(Pool(cands)),
     answer |-> renderAnswerOrFallback(q, cands)]

\* const cands = searchCorpus(q); renderAnswerOrFallback(q, cands);
\* reading corpus.docs of a corpus without a docs array throws a TypeError,
\* which ends the handler
SearchAndRender(q) ==
    IF HasDocsArray(corpus)
    THEN LET cands == searchCorpus(q)
         IN  /\ run' = RunOf(q, cands)
             /\ panel' = run'.answer
             /\ hintsDisplay' = "none"
    ELSE /\ run' = [kind |-> "threw", query |-> q, ready |-> corpusReady]
         /\ UNCHANGED <<panel, hintsDisplay>>

\* the guard of submit(): if (!corpusReady) return
SubmitGuardNone ==
    TRUE

SubmitGuard ==
    corpusReady

\* submit(), global-ask.js lines 372-384
submit ==
    IF ~SubmitGuard THEN UNCHANGED <<panel, hintsDisplay, run>>
    ELSE IF trim(inputValue) = <<>>
    THEN /\ panel' = EmptyPanel
         /\ hintsDisplay' = ""
         /\ UNCHANGED run
    ELSE SearchAndRender(trim(inputValue))

\* Enter in the ask box
EnterKey ==
    /\ submit
    /\ UNCHANGED <<corpus, corpusReady, askDisabled, loadState, loadPc, sidebar,
                   inputValue>>
    /\ UNCHANGED notGlobal

\* a click on the ask button; a disabled button receives no click
ClickAsk ==
    /\ ~askDisabled
    /\ submit
    /\ UNCHANGED <<corpus, corpusReady, askDisabled, loadState, loadPc, sidebar,
                   inputValue>>
    /\ UNCHANGED notGlobal

\* the guard of the hint listener: button && !button.disabled
HintGuard ==
    ~askDisabled

\* a click on hint i, the listener of makeHintLi (lines 344-355)
HintClick(i) ==
    /\ inputValue' = SAMPLE_QUERIES[i]
    /\ IF HintGuard /\ trim(SAMPLE_QUERIES[i]) # <<>>
       THEN SearchAndRender(trim(SAMPLE_QUERIES[i]))
       ELSE UNCHANGED <<panel, hintsDisplay, run>>
    /\ UNCHANGED <<corpus, corpusReady, askDisabled, loadState, loadPc, sidebar>>
    /\ UNCHANGED notGlobal

(***************************************************************************)
(* selectSources applied to any short list of candidates.  A candidate is  *)
(* given by the fields selectSources reads: its type, its document's id    *)
(* and its section's id.                                                   *)
(***************************************************************************)
\* the most candidates of a list
MaxCands ==
    4

CandDocIds ==
    {Id_PaymentLinks, Id_Checkout, Id_Security}

CandSectionIds ==
    {Id_LimitPayments, Id_Intro, Id_Phone}

\* per document: its title (a candidate with no section id), its sections and
\* a FAQ citing a section
CandidateUniverse ==
    {[type |-> "doc", doc |-> [id |-> d]] : d \in CandDocIds}
        \cup {[type |-> "section", doc |-> [id |-> d], section |-> [id |-> s]] :
                    d \in CandDocIds, s \in CandSectionIds}
        \cup {[type |-> "faq", doc |-> [id |-> d], sectionId |-> s] :
                    d \in CandDocIds, s \in {Id_LimitPayments}}

CandidateLists ==
    UNION {[1..n -> CandidateUniverse] : n \in 0..MaxCands}

IdleSelect ==
    /\ selCands = <<>>
    /\ selRun = [done |-> FALSE]

\* no initAsk on the page
IdleScoped ==
    /\ page = NoDoc
    /\ faqData = JsNull
    /\ sections = <<>>
    /\ isLoading = FALSE
    /\ loads = <<>>
    /\ askInput = <<>>
    /\ askPanel = EmptyPanel
    /\ asked = 0
    /\ lastEval = NoRun

IdleGlobal ==
    /\ corpus = JsNull
    /\ corpusReady = FALSE
    /\ askDisabled = AskButtonInitiallyDisabled
    /\ loadState = ""
    /\ loadPc = "done"
    /\ sidebar = <<>>
    /\ inputValue = <<>>
    /\ panel = EmptyPanel
    /\ hintsDisplay = ""
    /\ run = NoRun

InitSelect ==
    /\ selCands \in CandidateLists
    /\ selRun = [done |-> FALSE]
    /\ IdleGlobal
    /\ IdleScoped
    /\ IdleHeading
    /\ IdleNav

\* const sources = selectSources(pool)
SelectSources ==
    /\ ~selRun.done
    /\ selRun' = [done |-> TRUE, picked |-> selectSources(selCands),
                   ix |-> SelectRun(selCands).ix]
    /\ UNCHANGED selCands
    /\ UNCHANGED notSelect

NextSelect ==
    SelectSources

SpecSelect ==
    InitSelect /\ [][NextSelect]_vars

(***************************************************************************)
(* The global ask page.                                                    *)
(***************************************************************************)
Init ==
    /\ InitGlobalAsk
    /\ IdleSelect
    /\ IdleScoped
    /\ IdleHeading
    /\ IdleNav

Next ==
    \/ FetchFails
    \/ FetchResolves
    \/ JsonRejects
    \/ \E payload \in Payloads : JsonResolves(payload)
    \/ \E q \in TypedQueries : TypeQuery(q)
    \/ EnterKey
    \/ ClickAsk
    \/ \E i \in 1..Len(SAMPLE_QUERIES) : HintClick(i)

Spec ==
    Init /\ [][Next]_vars

(***************************************************************************)
(* The page-scoped ask: tokenise, scoreJaccard, buildSectionIndex and      *)
(* composeAnswer of global-ask.js lines 411-552.                           *)
(***************************************************************************)
AQ_Limit ==
    <<"l", "i", "m", "i", "t", " ", "a", " ", "l", "i", "n", "k">>

AQ_Other ==
    <<"r", "e", "f", "u", "n", "d", " ", "f", "e", "e", "s">>

Id_Deactivated ==
    <<"d", "e", "a", "c", "t", "i", "v", "a", "t", "e", "d", "-", "m", "e", "s", "s", "a", "g", "e">>

AP_Limit ==
    <<"S", "e", "t", " ", "a", " ", "l", "i", "m", "i", "t", " ", "o", "f", " ", "o", "n", "e", ".">>

tokenise(text) ==
    SelectSeq(SplitSpace(Normalise(text)), LAMBDA t : t # <<>>)

scoreJaccard(query, text) ==
    LET queryTokens == SetOf(tokenise(query))
        textTokens == SetOf(tokenise(text))
    IN  IF queryTokens = {} \/ textTokens = {} THEN Zero
        ELSE Rat(Cardinality(queryTokens \cap textTokens),
                 Cardinality(queryTokens \cup textTokens))

\* composeAnswer: const threshold = 0.12
THRESHOLD ==
    Rat(12, 100)

\* the text collected from the siblings els[i..] of a heading, up to the
\* next H2: ' ' + textContent of each element of a text tag
RECURSIVE SiblingText(_, _)
SiblingText(els, i) ==
    IF i > Len(els) \/ els[i].tag = "H2" THEN <<>>
    ELSE IF els[i].tag \in {"P", "UL", "OL", "BLOCKQUOTE"}
    THEN <<" ">> \o els[i].text \o SiblingText(els, i + 1)
    ELSE SiblingText(els, i + 1)

\* buildSectionIndex(rootEl): one section per h2 of the children els
buildSectionIndex(els) ==
    LET headings == SelectSeq([i \in 1..Len(els) |-> i], LAMBDA i : els[i].tag = "H2")
    IN  [k \in 1..Len(headings) |->
            [id |-> els[headings[k]].id,
             title |-> els[headings[k]].text,
             text |-> trim(SiblingText(els, headings[k] + 1))]]

\* faqs.forEach and sections.forEach of composeAnswer: the items reaching
\* the threshold, the FAQs first
ScoredFaqs(query, faqs) ==
    SelectSeq([i \in 1..Len(faqs) |->
                  [type |-> "faq", score |-> scoreJaccard(query, faqs[i].q \o <<" ">> \o faqs[i].a),
                   data |-> faqs[i]]],
              LAMBDA r : RGeq(r.score, THRESHOLD))

ScoredSections(query, secs) ==
    SelectSeq([i \in 1..Len(secs) |->
                  [type |-> "section",
                   score |-> scoreJaccard(query, secs[i].title \o <<" ">> \o secs[i].text),
                   data |-> secs[i]]],
              LAMBDA r : RGeq(r.score, THRESHOLD))

\* results.find(r => r.data.id === id): its place, 0 when there is none
FindId(results, id) ==
    IF \E i \in 1..Len(results) : results[i].data.id = id
    THEN CHOOSE i \in 1..Len(results) :
            /\ results[i].data.id = id
            /\ \A j \in 1..(i - 1) : results[j].data.id # id
    ELSE 0

\* composeAnswer(query, faqs, sections) of the scoped ask.  The markup of
\* the answer is a fixed function of the items kept here: the kind of
\* answer, the FAQ answer or the section title and text it quotes, and
\* the sources
composeAnswerScoped(query, faqs, secs) ==
    LET results == SortByScore(ScoredFaqs(query, faqs) \o ScoredSections(query, secs), 1, <<>>)
        limitUsage == FindId(results, Id_LimitPayments)
        deactivationMessage == FindId(results, Id_Deactivated)
    IN  IF Len(results) = 0
        THEN [hit |-> FALSE, html |-> <<>>, sources |-> <<>>, confidence |-> Zero]
        ELSE IF limitUsage # 0 /\ deactivationMessage # 0
                /\ limitUsage - 1 < 3 /\ deactivationMessage - 1 < 3
        THEN [hit |-> TRUE, html |-> <<"synthesis">>,
              sources |-> <<Id_LimitPayments, Id_Deactivated>>,
              confidence |-> RMax(results[limitUsage].score,
                                  results[deactivationMessage].score)]
        ELSE IF results[1].type = "faq"
        THEN [hit |-> TRUE, html |-> <<"faq", results[1].data.a>>,
              sources |-> <<results[1].data.id>>,
              confidence |-> results[1].score]
        ELSE [hit |-> TRUE,
              html |-> <<"section", results[1].data.title, results[1].data.text>>,
              sources |-> <<results[1].data.id>>,
              confidence |-> results[1].score]

\* renderAnswer(result, query): the answer with its jump buttons, or the
\* links to the sections of the page
renderAnswer(result) ==
    IF result.hit
    THEN [kind |-> "answer", html |-> result.html, jumps |-> result.sources]
    ELSE [kind |-> "fallback"]

(***************************************************************************)
(* initAsk: loadData (lines 565-592) and handleQuery (lines 680-694).      *)
(***************************************************************************)
\* the children of #doc on the pages considered
\* "Limit a payment link"
\* "Dashboard or API"
\* "Related guides"
\* "Message for a deactivated link"
\* "Customers see a message."
PageWithSections ==
    [type |-> "element",
     children |-> <<[tag |-> "H2", id |-> Id_LimitPayments, text |-> <<"L", "i", "m", "i", "t", " ", "a", " ", "p", "a", "y", "m", "e", "n", "t", " ", "l", "i", "n", "k">>],
                    [tag |-> "P", text |-> AP_Limit],
                    [tag |-> "DIV", text |-> <<"R", "e", "l", "a", "t", "e", "d", " ", "g", "u", "i", "d", "e", "s">>],
                    [tag |-> "UL", text |-> <<"D", "a", "s", "h", "b", "o", "a", "r", "d", " ", "o", "r", " ", "A", "P", "I">>],
                    [tag |-> "H2", id |-> Id_Deactivated, text |-> <<"M", "e", "s", "s", "a", "g", "e", " ", "f", "o", "r", " ", "a", " ", "d", "e", "a", "c", "t", "i", "v", "a", "t", "e", "d", " ", "l", "i", "n", "k">>],
                    [tag |-> "P", text |-> <<"C", "u", "s", "t", "o", "m", "e", "r", "s", " ", "s", "e", "e", " ", "a", " ", "m", "e", "s", "s", "a", "g", "e", ".">>]>>]

PageWithoutHeadings ==
    [type |-> "element", children |-> <<[tag |-> "P", text |-> AP_Limit]>>]

Pages ==
    {NoDoc, PageWithoutHeadings, PageWithSections}

\* "Can I limit a link?"
\* "Yes, a link can be single use."
F_Limit ==
    [id |-> Id_LimitPayments, q |-> <<"C", "a", "n", " ", "I", " ", "l", "i", "m", "i", "t", " ", "a", " ", "l", "i", "n", "k", "?">>, a |-> <<"Y", "e", "s", ",", " ", "a", " ", "l", "i", "n", "k", " ", "c", "a", "n", " ", "b", "e", " ", "s", "i", "n", "g", "l", "e", " ", "u", "s", "e", ".">>]

\* "Are there fees?"
\* "Fees apply to refunds."
\* "fees"
F_Fees ==
    [id |-> <<"f", "e", "e", "s">>, q |-> <<"A", "r", "e", " ", "t", "h", "e", "r", "e", " ", "f", "e", "e", "s", "?">>, a |-> <<"F", "e", "e", "s", " ", "a", "p", "p", "l", "y", " ", "t", "o", " ", "r", "e", "f", "u", "n", "d", "s", ".">>]

\* the payloads response.json() resolves to: null, an object without faqs,
\* and objects with a list of FAQs
FaqPayloads ==
    {JsNull, [type |-> "object"],
     [type |-> "object", faqs |-> JsArray(<<>>)],
     [type |-> "object", faqs |-> JsArray(<<F_Limit, F_Fees>>)]}

\* data && Array.isArray(data.faqs)
HasFaqsArray(data) ==
    data # JsNull /\ "faqs" \in DOMAIN data /\ isArray(data.faqs)

\* the queries typed into the input, and the data-q of the chips
AskQueries ==
    {AQ_Limit, AQ_Other, Q_Blank}

\* "single use link"
ChipQueries ==
    {<<"s", "i", "n", "g", "l", "e", " ", "u", "s", "e", " ", "l", "i", "n", "k">>}

\* the most calls of handleQuery that read a query
MaxAsked ==
    2

\* the state after initAsk: the listeners are wired and the first loadData
\* waits for fetch()
InitAsk ==
    /\ page \in Pages
    /\ faqData = JsNull
    /\ sections = <<>>
    /\ isLoading = TRUE
    /\ loads = <<[pc |-> "fetch", waiter |-> [waits |-> FALSE]]>>
    /\ askInput = <<>>
    /\ askPanel = EmptyPanel
    /\ asked = 0
    /\ lastEval = NoRun
    /\ IdleGlobal
    /\ IdleSelect
    /\ IdleHeading
    /\ IdleNav

\* const result = composeAnswer(query, faqData || [], sections);
\* renderAnswer(result, query); with the loads still waiting at that moment
Answer(query, data, secs, loading, waiting) ==
    /\ askPanel' = renderAnswer(composeAnswerScoped(query,
                        IF data = JsNull THEN <<>> ELSE data.items, secs))
    /\ lastEval' = [kind |-> "evaluated", query |-> query, isLoading |-> loading,
                    inFlight |-> Len(waiting), faqData |-> data, sections |-> secs]

\* the guard of loadData: if (isLoading) return
LoadGuardNone ==
    FALSE

LoadGuard ==
    isLoading

\* handleQuery, from a click on the button, Enter, or a chip that set the
\* input to q.  Without data it calls loadData: loadData returns at once
\* while a load is running, and handleQuery goes on in the same turn of the
\* event loop; otherwise loadData starts a fetch and handleQuery waits for it
handleQuery(q) ==
    IF trim(q) = <<>> THEN UNCHANGED <<scopedVars>>
    ELSE /\ asked < MaxAsked
         /\ asked' = asked + 1
         /\ askInput' = <<>>
         /\ UNCHANGED <<page, faqData, sections>>
         /\ IF faqData = JsNull \/ Len(sections) = 0
            THEN IF LoadGuard
                 THEN /\ Answer(trim(q), faqData, sections, isLoading, loads)
                      /\ UNCHANGED <<isLoading, loads>>
                 ELSE /\ isLoading' = TRUE
                      /\ loads' = Append(loads, [pc |-> "fetch",
                                                 waiter |-> [waits |-> TRUE, query |-> trim(q)]])
                      /\ UNCHANGED <<askPanel, lastEval>>
            ELSE /\ Answer(trim(q), faqData, sections, isLoading, loads)
                 /\ UNCHANGED <<isLoading, loads>>

\* the user edits the input
TypeAsk(q) ==
    /\ askInput' = q
    /\ UNCHANGED <<page, faqData, sections, isLoading, loads, askPanel, asked, lastEval>>
    /\ UNCHANGED notScoped

\* a click on the button or Enter in the input
SubmitAsk ==
    /\ handleQuery(askInput)
    /\ UNCHANGED notScoped

\* a click on a chip: inputEl.value = query; handleQuery()
ChipClick(q) ==
    /\ handleQuery(q)
    /\ UNCHANGED notScoped

\* loads without its item k
Without(xs, k) ==
    SubSeq(xs, 1, k - 1) \o SubSeq(xs, k + 1, Len(xs))

\* the end of the call k of loadData: the finally block resets isLoading,
\* then the handleQuery that awaits it, if any, composes its answer
LoadEnds(k, data, secs) ==
    /\ faqData' = data
    /\ sections' = secs
    /\ isLoading' = FALSE
    /\ loads' = Without(loads, k)
    /\ IF loads[k].waiter.waits
       THEN Answer(loads[k].waiter.query, data, secs, isLoading', loads')
       ELSE UNCHANGED <<askPanel, lastEval>>
    /\ UNCHANGED <<page, askInput, asked>>
    /\ UNCHANGED notScoped

\* fetch() of load k rejects or its response is not ok: the catch block
AskFetchFails(k) ==
    /\ k \in 1..Len(loads)
    /\ loads[k].pc = "fetch"
    /\ LoadEnds(k, JsNull, sections)

\* fetch() of load k resolves with an ok response
AskFetchResolves(k) ==
    /\ k \in 1..Len(loads)
    /\ loads[k].pc = "fetch"
    /\ loads' = [loads EXCEPT ![k].pc = "json"]
    /\ UNCHANGED <<page, faqData, sections, isLoading, askInput, askPanel, asked, lastEval>>
    /\ UNCHANGED notScoped

\* response.json() of load k rejects: the catch block
AskJsonRejects(k) ==
    /\ k \in 1..Len(loads)
    /\ loads[k].pc = "json"
    /\ LoadEnds(k, JsNull, sections)

\* response.json() of load k resolves with data: the FAQs are kept and the
\* sections of #doc are indexed, or the data is refused
AskJsonResolves(k, data) ==
    /\ k \in 1..Len(loads)
    /\ loads[k].pc = "json"
    /\ IF HasFaqsArray(data)
       THEN LoadEnds(k, data.faqs,
                     IF page # NoDoc THEN buildSectionIndex(page.children) ELSE sections)
       ELSE LoadEnds(k, JsNull, sections)

NextAsk ==
    \/ \E q \in AskQueries : TypeAsk(q)
    \/ SubmitAsk
    \/ \E q \in ChipQueries : ChipClick(q)
    \/ \E k \in 1..Len(loads) : AskFetchFails(k)
    \/ \E k \in 1..Len(loads) : AskFetchResolves(k)
    \/ \E k \in 1..Len(loads) : AskJsonRejects(k)
    \/ \E k \in 1..Len(loads), data \in FaqPayloads : AskJsonResolves(k, data)

SpecAsk ==
    InitAsk /\ [][NextAsk]_vars

(***************************************************************************)
(* headingScore applied to any query and any two headings made of the      *)
(* words of a small vocabulary.                                            *)
(***************************************************************************)
\* "Pay", "link", "single", "use", "limit", "once"
Vocabulary ==
    <<<<"P", "a", "y">>,
      <<"l", "i", "n", "k">>,
      <<"s", "i", "n", "g", "l", "e">>,
      <<"u", "s", "e">>,
      <<"l", "i", "m", "i", "t">>,
      <<"o", "n", "c", "e">>>>

\* how many words of the vocabulary the texts use
MaxWords ==
    4

\* the text made of the words of the vocabulary at the places S, in order
TextOf(S) ==
    LET at == SelectSeq([i \in 1..MaxWords |-> i], LAMBDA i : i \in S)
    IN  join([k \in 1..Len(at) |-> Vocabulary[at[k]]])

HeadingTexts ==
    {TextOf(S) : S \in SUBSET (1..MaxWords)}

InitHeading ==
    /\ hQuery \in HeadingTexts
    /\ hFull \in HeadingTexts
    /\ hPartial \in HeadingTexts
    /\ hRun = [done |-> FALSE]
    /\ IdleGlobal
    /\ IdleSelect
    /\ IdleScoped
    /\ IdleNav

\* headingScore(query, heading) for each of the two headings
ScoreHeadings ==
    /\ ~hRun.done
    /\ hRun' = [done |-> TRUE, full |-> headingScore(hQuery, hFull),
                 partial |-> headingScore(hQuery, hPartial)]
    /\ UNCHANGED <<hQuery, hFull, hPartial>>
    /\ UNCHANGED <<globalVars, selectVars, scopedVars, navVars>>

SpecHeading ==
    InitHeading /\ [][ScoreHeadings]_vars

(***************************************************************************)
(* initNavHighlight, nav.js: updateActiveLink (lines 16-39), handleScroll  *)
(* (lines 42-47) and the listeners (lines 50-56).                          *)
(***************************************************************************)
\* const offset = 120
offset ==
    120

\* the headings passed to initNavHighlight, in document order: the id of
\* each and the distance of its top from the top of the page, per layout
\* "intro", "usage", "api"
Headings ==
    <<[id |-> <<"i", "n", "t", "r", "o">>, top |-> [wide |-> 100, narrow |-> 100]],
      [id |-> <<"u", "s", "a", "g", "e">>, top |-> [wide |-> 500, narrow |-> 700]],
      [id |-> <<"a", "p", "i">>, top |-> [wide |-> 900, narrow |-> 1300]]>>

\* the href attribute of the links passed to initNavHighlight; the last link
\* has none
\* "#intro", "#usage", "#api"
Links ==
    <<<<"#", "i", "n", "t", "r", "o">>,
      <<"#", "u", "s", "a", "g", "e">>,
      <<"#", "a", "p", "i">>,
      Null>>

\* updateActiveLink with the page in layout lay and scrolled to y: activeId
\* is the id of the last heading whose rect.top is at most offset, and a
\* link is active when its href without its first character equals activeId
updateActiveLink(lay, y) ==
    LET inView == SelectSeq(Headings, LAMBDA h : h.top[lay] - y <= offset)
        id == IF Len(inView) = 0 THEN <<>> ELSE inView[Len(inView)].id
    IN  [activeId |-> id,
         linkActive |-> {i \in 1..Len(Links) :
                            (IF Links[i] = Null THEN <<>> ELSE Tail(Links[i])) = id}]

\* the positions the page is scrolled to
ScrollPositions ==
    {0, 400, 800, 1200}

\* the most callbacks requestAnimationFrame is let to hold
MaxQueued ==
    2

\* the state after initNavHighlight: the initial update has run and the
\* listeners are added
InitNav ==
    /\ ticking = FALSE
    /\ rafQueue = <<>>
    /\ scrollTop \in ScrollPositions
    /\ layout \in {"wide", "narrow"}
    /\ events = {}
    /\ activeId = updateActiveLink(layout, scrollTop).activeId
    /\ linkActive = updateActiveLink(layout, scrollTop).linkActive
    /\ stale = 0
    /\ IdleGlobal
    /\ IdleSelect
    /\ IdleScoped
    /\ IdleHeading

\* the user scrolls the page to y: the browser will dispatch a scroll event
UserScrolls(y) ==
    /\ y # scrollTop
    /\ scrollTop' = y
    /\ events' = events \cup {"scroll"}
    /\ UNCHANGED <<ticking, rafQueue, layout, activeId, linkActive, stale>>
    /\ UNCHANGED <<globalVars, selectVars, scopedVars, headingVars>>

\* the user resizes the window: the layout changes and the browser will
\* dispatch a resize event
UserResizes ==
    /\ layout' = IF layout = "wide" THEN "narrow" ELSE "wide"
    /\ events' = events \cup {"resize"}
    /\ UNCHANGED <<ticking, rafQueue, scrollTop, activeId, linkActive, stale>>
    /\ UNCHANGED <<globalVars, selectVars, scopedVars, headingVars>>

\* the guard of handleScroll: if (!ticking)
TickGuardNone ==
    TRUE

TickGuard ==
    ~ticking

\* handleScroll; stale counts its runs since the last updateActiveLink,
\* 2 standing for two or more
handleScroll ==
    /\ stale' = IF stale < 2 THEN stale + 1 ELSE stale
    /\ IF TickGuard
       THEN /\ Len(rafQueue) < MaxQueued
            /\ rafQueue' = Append(rafQueue, "updateActiveLink")
            /\ ticking' = TRUE
       ELSE UNCHANGED <<ticking, rafQueue>>

\* the browser dispatches a scroll or resize event: both listeners are
\* handleScroll
Dispatch(e) ==
    /\ e \in events
    /\ events' = events \ {e}
    /\ handleScroll
    /\ UNCHANGED <<scrollTop, layout, activeId, linkActive>>
    /\ UNCHANGED <<globalVars, selectVars, scopedVars, headingVars>>

\* the next animation frame: the browser runs the callbacks
\* requestAnimationFrame holds, each of them updateActiveLink
AnimationFrame ==
    /\ rafQueue # <<>>
    /\ rafQueue' = <<>>
    /\ activeId' = updateActiveLink(layout, scrollTop).activeId
    /\ linkActive' = updateActiveLink(layout, scrollTop).linkActive
    /\ ticking' = FALSE
    /\ stale' = 0
    /\ UNCHANGED <<scrollTop, layout, events>>
    /\ UNCHANGED <<globalVars, selectVars, scopedVars, headingVars>>

NextNav ==
    \/ \E y \in ScrollPositions : UserScrolls(y)
    \/ UserResizes
    \/ \E e \in {"scroll", "resize"} : Dispatch(e)
    \/ AnimationFrame

\* the browser runs the callbacks of requestAnimationFrame at the next frame
SpecNav ==
    InitNav /\ [][NextNav]_vars /\ WF_vars(AnimationFrame)

(***************************************************************************)
(* Claims about selectSources, checked under SpecSelect.                   *)
(***************************************************************************)
\* the ids of the documents the candidates at the places ix of cands belong to
DocIdsAt(cands, ix) ==
    {cands[k].doc.id : k \in ix}

\* the sections (document id, section id) the candidates at the places ix of
\* cands reference
SectionRefsAt(cands, ix) ==
    {<<cands[k].doc.id, secIdOf(cands[k])>> : k \in {j \in ix : secIdOf(cands[j]) # Null}}

Places(xs) ==
    1..Len(xs)

\* the places in selCands of the candidates picked before place i
PickedBefore(i) ==
    {selRun.ix[k] : k \in {j \in Places(selRun.ix) : selRun.ix[j] < i}}

\* C1: the sources selectSources returns reference at most 3 distinct
\* sections and at most 2 distinct documents, whatever the candidate list
C1_SourceCaps ==
    selRun.done =>
        /\ Cardinality(DocIdsAt(selRun.picked, Places(selRun.picked))) <= 2
        /\ Cardinality(SectionRefsAt(selRun.picked, Places(selRun.picked))) <= 3

\* C1: three sources of three sections and two documents were picked, and a
\* candidate of a third document was passed over
C1_Witness ==
    /\ selRun.done
    /\ Len(selRun.picked) = 3
    /\ Cardinality(DocIdsAt(selRun.picked, Places(selRun.picked))) = 2
    /\ Cardinality(SectionRefsAt(selRun.picked, Places(selRun.picked))) = 3
    /\ \E i \in Places(selCands) :
          /\ i < selRun.ix[3]
          /\ selCands[i].doc.id \notin DocIdsAt(selRun.picked, Places(selRun.picked))

\* the section of candidate i, in its own document, was included before i
OwnSectionIncluded(i) ==
    /\ secIdOf(selCands[i]) # Null
    /\ <<selCands[i].doc.id, secIdOf(selCands[i])>>
            \in SectionRefsAt(selCands, PickedBefore(i))

\* the document of candidate i is new and two documents were included before i
NewDocumentAtCap(i) ==
    /\ selCands[i].doc.id \notin DocIdsAt(selCands, PickedBefore(i))
    /\ Cardinality(DocIdsAt(selCands, PickedBefore(i))) = 2

\* C9: while fewer than 3 sources are picked, selectSources passes over a
\* candidate only if its own section (of its own document) was already
\* included or if its document is new and two documents are included; so a
\* candidate of an included document whose section was not included is picked
C9_SkipsOnlyForTwoReasons ==
    selRun.done =>
        \A i \in Places(selCands) :
            (Cardinality(PickedBefore(i)) < 3 /\ \A k \in Places(selRun.ix) : selRun.ix[k] # i)
                => (OwnSectionIncluded(i) \/ NewDocumentAtCap(i))

(***************************************************************************)
(* Claims about the global ask page, checked under Spec.                   *)
(***************************************************************************)
\* the texts of a corpus: titles, headings, bodies, FAQ questions and answers
DocTexts(d) ==
    {d.title}
        \cup UNION {{s.heading, Or(s, "body", <<>>)} : s \in SetOf(Or(d, "sections", <<>>))}
        \cup UNION {{Or(f, "q", <<>>), Or(f, "a", <<>>)} : f \in SetOf(Or(d, "faqs", <<>>))}

CorpusTokens(c) ==
    UNION {SetOf(tokeniseClean(t)) : t \in UNION {DocTexts(d) : d \in SetOf(c.docs.items)}}

\* C2: a non-empty query none of whose tokens appears in a title, heading,
\* body, FAQ question or FAQ answer of the corpus gets no candidate and the
\* no-match answer with no source
C2_NoMatchForUnknownTokens ==
    (run.kind = "searched"
        /\ SetOf(tokeniseClean(run.query)) \cap CorpusTokens(corpus) = {})
        => (run.cands = <<>> /\ run.sources = <<>> /\ run.answer = NoResults)

\* the corpus of the scenario: the document "Payment Links" with the single
\* section limit-payments and no FAQs
ScenarioCorpus ==
    [type |-> "object", docs |-> JsArray(<<D_PaymentLinks>>)]

\* C3: in the scenario the query "make a payment link single use" selects
\* the section limit-payments as the only source, and the lead text is the
\* first sentence of its body
C3_Scenario ==
    (corpus = ScenarioCorpus /\ run.kind = "searched" /\ run.query = Q_SingleUse)
        => /\ run.answer.kind = "answer"
           /\ Len(run.sources) = 1
           /\ run.sources[1].type = "section"
           /\ run.sources[1].section.id = Id_LimitPayments
           /\ Len(run.answer.chips) = 1
           /\ run.answer.chips[1].secId = Id_LimitPayments
           /\ run.answer.lead = SplitSentences(B_LimitPayments)[1]

LoadFailedText ==
    "Docs failed to load. Please refresh."

\* C4: a load that is rejected leaves the corpus variable as it was, and
\* leaves the engine not ready with the ask button disabled
C4_RejectedLoadKeepsCorpus ==
    [][(loadPc # "done" /\ loadState' = LoadFailedText)
            => (corpus' = corpus /\ ~corpusReady' /\ askDisabled')]_vars

ExtractedOf(src) ==
    IF src.type = "section" THEN SetOf(SplitSentences(Or(src.section, "body", <<>>)))
    ELSE IF src.type = "faq"
    THEN UNION {SetOf(SplitSentences(Or(f, "a", <<>>))) :
                    f \in {g \in SetOf(Or(src.doc, "faqs", <<>>)) :
                                Or(g, "section_id", Null) = secIdOf(src)}}
    ELSE {}

Extracted(sources) ==
    UNION {ExtractedOf(src) : src \in SetOf(sources)}

\* C6: the lead text is made only of sentences extracted from the bodies of
\* the selected sections and the answers of the selected FAQs
C6_LeadOnlyExtracted ==
    (run.kind = "searched" /\ run.answer.kind = "answer")
        => \E n \in 0..MaxLead : \E parts \in [1..n -> Extracted(run.sources)] :
               run.answer.lead = join(parts)

\* the places of the candidates of the strong tier
StrongPlaces(cands) ==
    {i \in Places(cands) : RGeq(cands[i].score, STRONG_MATCH)}

\* C10: the working pool is exactly the candidates of score >= STRONG_MATCH,
\* in their order, when there is one, and otherwise the whole candidate list,
\* every candidate being above the floor; the no-match branch is taken
\* exactly when the candidate list is empty
C10_PoolIsStrongTierOrAll ==
    run.kind = "searched" =>
        /\ \A i \in Places(run.cands) : RGeq(run.cands[i].score, CANDIDATE_FLOOR)
        /\ StrongPlaces(run.cands) # {}
              => /\ Len(run.pool) = Cardinality(StrongPlaces(run.cands))
                 /\ \A k \in Places(run.pool) :
                       \E i \in StrongPlaces(run.cands) :
                          /\ run.pool[k] = run.cands[i]
                          /\ Cardinality({j \in StrongPlaces(run.cands) : j < i}) = k - 1
        /\ StrongPlaces(run.cands) = {} => run.pool = run.cands
        /\ (run.answer = NoResults) <=> (run.cands = <<>>)

\* C10: the candidates are all below STRONG_MATCH and the fallback tier is
\* the pool
C10_Witness ==
    /\ run.kind = "searched"
    /\ run.cands # <<>>
    /\ StrongPlaces(run.cands) = {}
    /\ run.pool = run.cands
    /\ run.answer.kind = "answer"

(***************************************************************************)
(* Claims about initAsk, checked under SpecAsk.                            *)
(***************************************************************************)
\* C7: at most one loadData fetch is in flight at a time, isLoading is true
\* exactly while one is (so it is false again after every load, failed or
\* not), and no step taken while isLoading is true starts another fetch
C7_SingleLoadInFlight ==
    /\ [](Len(loads) <= 1 /\ (isLoading <=> Len(loads) = 1))
    /\ [][isLoading => Len(loads') <= Len(loads)]_vars

\* a query was submitted while the load was running, and still one fetch
\* only is in flight
C7_Witness ==
    /\ lastEval.kind = "evaluated"
    /\ lastEval.isLoading
    /\ Len(loads) = 1
    /\ isLoading

\* C8: a query is never evaluated while a data load is in flight:
\* whenever composeAnswer ran for a query, no loadData was running
C8_NoEvalWhileLoading ==
    lastEval.kind = "evaluated" => (~lastEval.isLoading /\ lastEval.inFlight = 0)

(***************************************************************************)
(* Claims about the order of the candidates, checked under Spec.           *)
(***************************************************************************)
\* the scores of xs never increase from one item to the next
NonIncreasing(xs) ==
    \A i \in 1..(Len(xs) - 1) : RGeq(xs[i].score, xs[i + 1].score)

\* the place item i of raw takes when raw is ordered by descending score
\* and the items of equal score keep their order
RankOf(raw, i) ==
    1 + Cardinality({j \in 1..Len(raw) : RGt(raw[j].score, raw[i].score)})
      + Cardinality({j \in 1..(i - 1) : raw[j].score = raw[i].score})

\* C11: the candidates searchCorpus returns, the working pool and the picked
\* sources are in non-increasing score order; candidates of equal score keep
\* the order of the traversal of the corpus (documents in order, within a
\* document its title, its sections, its FAQs); and calling searchCorpus
\* again with the same corpus and query returns the same sequence
C11_StableDescendingOrder ==
    run.kind = "searched"
        => LET raw == CorpusResults(run.query, corpus.docs.items, 1)
           IN  /\ NonIncreasing(run.cands)
               /\ NonIncreasing(run.pool)
               /\ NonIncreasing(run.sources)
               /\ Len(run.cands) = Len(raw)
               /\ \A i \in 1..Len(raw) : run.cands[RankOf(raw, i)] = raw[i]
               /\ searchCorpus(run.query) = run.cands

\* C11: a search returned two different candidates of equal score
C11_Witness ==
    /\ run.kind = "searched"
    /\ \E i, j \in 1..Len(run.cands) :
          /\ i < j
          /\ run.cands[i].score = run.cands[j].score
          /\ run.cands[i] # run.cands[j]

(***************************************************************************)
(* Claims about headingScore, checked under SpecHeading.                   *)
(***************************************************************************)
\* the heading holds every token of the query: the case of the fixed score
ContainsQuery(query, heading) ==
    /\ tokeniseClean(query) # <<>>
    /\ SetOf(tokeniseClean(query)) \subseteq SetOf(tokeniseClean(heading))

\* C12: for every query and every two headings, the score of a heading that
\* holds every token of the query is at least the score of a heading that
\* misses one of them: a partial match never outranks a full match
C12_FullMatchNotOutranked ==
    (hRun.done /\ ContainsQuery(hQuery, hFull) /\ ~ContainsQuery(hQuery, hPartial))
        => RGeq(hRun.full, hRun.partial)

(***************************************************************************)
(* Claims about initNavHighlight, checked under SpecNav.                   *)
(***************************************************************************)
\* C13: at most one updateActiveLink callback is pending in
\* requestAnimationFrame at any time, ticking is true exactly while one is
\* pending, and every scroll or resize event handled is followed by a run of
\* updateActiveLink
C13_OneFramePending ==
    /\ [](Len(rafQueue) <= 1 /\ (ticking <=> Len(rafQueue) = 1))
    /\ ((stale > 0) ~> (stale = 0))

\* C13: a second event was handled while the callback of the first was
\* pending, and one callback only is pending
C13_Witness ==
    /\ stale = 2
    /\ ticking
    /\ Len(rafQueue) = 1

====
